---- MODULE Spec2Model ----
(***************************************************************************)
(* A model of analysis/tritium/tritium_model.py, the script that reduces   *)
(* the LSC counting files of a BABY run to cumulative tritium release and  *)
(* a measured TBR.  The script's module-level statements are the steps of  *)
(* one run; pc is the statement the run has reached.  What the script      *)
(* reads (general.json, the LSC files, the OpenMC statepoint, an earlier   *)
(* processed_data.json) is drawn in the initial state and never changes.   *)
(*                                                                         *)
(* Magnitudes are integers: activities in Bq, times in seconds.  A pint    *)
(* quantity keeps its value under .to(unit), so a time stays in seconds.   *)
(***************************************************************************)
EXTENDS Integers, Sequences, FiniteSets, TLC

VARIABLES
    general_data,           \* the content of data/general.json
    lsc_files,              \* filename -> the LSC file on disk: quench set and rows
    statepoint_exists,      \* whether ../neutron/statepoint.100.h5 exists
    lib_sorts,              \* whether libra_toolbox's GasStream orders its samples by time
    pc,                     \* the statement of the script the run is at
    error,                  \* the exception that ended the run, "none" while it runs
    warnings,               \* number of warnings.warn calls
    all_file_readers,       \* the module-level list of LSCFileReader objects
    all_quench,             \* the module-level list of recorded quench sets
    n_created,              \* filename -> number of LSCFileReader objects constructed
    n_parsed,               \* filename -> number of read_file() calls
    last_call,              \* the last create_sample call: its arguments and outcome
    background_curve,       \* the interpolator, or the undefined curve (None)
    start_time,             \* the canonical start time
    cursor,                 \* position of the loops of lines 148-166
    libra_samples,          \* the list of line 151
    stream_samples,         \* the list of line 149
    gas_streams,            \* stream name -> GasStream, a sequence in insertion order
    sampling_times,         \* the dictionary of line 186
    irradiations,           \* the list of line 213
    total_irradiation_time, \* line 259
    T_produced_IV,          \* line 266
    processed_data,         \* the dictionary of line 289
    processed_data_file,    \* the content of data/processed_data.json
    existing_file,          \* its content before the run
    t_sample,               \* a sample under repeated subtraction
    t_last,                 \* the last subtraction attempted on t_sample
    t_applied               \* number of subtractions that returned normally

vars == <<general_data, lsc_files, statepoint_exists, lib_sorts, pc, error, warnings,
          all_file_readers, all_quench, n_created, n_parsed, last_call,
          background_curve, start_time, cursor, libra_samples, stream_samples,
          gas_streams, sampling_times, irradiations, total_irradiation_time,
          T_produced_IV, processed_data, processed_data_file, existing_file,
          t_sample, t_last, t_applied>>

inputs == <<general_data, lsc_files, statepoint_exists, lib_sorts, existing_file>>
harness == <<t_sample, t_last, t_applied>>

---------------------------------------------------------------------------
(* Bounds of the inputs drawn in the initial states.                       *)
MaxAct == 2
MaxBg == 2
MaxPeriods == 1
MaxAttempts == 3

\* actual_sample_time: null in general.json
None == -1

Max(a, b) == IF a >= b THEN a ELSE b
Range(s) == {s[i] : i \in 1..Len(s)}

RECURSIVE SumSeq(_)
SumSeq(s) == IF s = <<>> THEN 0 ELSE s[1] + SumSeq(Tail(s))

RECURSIVE MinOf(_)
MinOf(s) == IF Len(s) = 1 THEN s[1]
            ELSE LET m == MinOf(Tail(s)) IN IF s[1] <= m THEN s[1] ELSE m

---------------------------------------------------------------------------
(* libra_toolbox.tritium.lsc_measurements, as the script uses it.          *)

\* LSCSample.from_file finds the vial: the ValueError of line 62 is its absence
HasVial(filename, label) == label \in DOMAIN lsc_files[filename].rows

\* LSCSample.from_file(file_reader, label)
LSCSample_from_file(filename, label) ==
    [name |-> label,
     activity |-> lsc_files[filename].rows[label].bq1,
     background_substracted |-> FALSE]

\* get_row_by_label(reader, label)["tSIE"]
get_row_by_label(filename, label) == lsc_files[filename].rows[label]


\* LSCSample.substract_background(background_sample): the library method line 69 calls
LSCSample_substract_background(sample, background_sample) ==
    IF sample.background_substracted
    THEN [raised |-> TRUE, warned |-> FALSE, sample |-> sample]
    ELSE LET activity == sample.activity - background_sample.activity IN
         [raised |-> FALSE,
          warned |-> activity < 0,
          sample |-> [sample EXCEPT !.activity = IF activity < 0 THEN 0 ELSE activity,
                                     !.background_substracted = TRUE]]

\* LIBRASample(libra_samples, time=time_sample)
LIBRASample(samples, time) == [samples |-> samples, time |-> time]

\* LIBRASample.get_soluble_activity / get_insoluble_activity / get_total_activity:
\* the first two vials of a sample hold the soluble form, the others the insoluble
FormVials(sample, form) ==
    CASE form = "total" -> 1..Len(sample.samples)
      [] form = "soluble" -> {k \in 1..Len(sample.samples) : k <= 2}
      [] form = "insoluble" -> {k \in 1..Len(sample.samples) : k > 2}

RECURSIVE SumOver(_, _)
SumOver(f, S) ==
    IF S = {} THEN 0
    ELSE LET k == CHOOSE x \in S : TRUE IN f[k].activity + SumOver(f, S \ {k})

FormActivity(sample, form) == SumOver(sample.samples, FormVials(sample, form))

\* insertion of x into a sequence sorted by time, after the entries of the same time
RECURSIVE InsertByTime(_, _)
InsertByTime(s, x) ==
    IF s = <<>> THEN <<x>>
    ELSE IF x.time < s[1].time THEN <<x>> \o s
    ELSE <<s[1]>> \o InsertByTime(Tail(s), x)

RECURSIVE SortByTime(_)
SortByTime(s) ==
    IF s = <<>> THEN <<>>
    ELSE InsertByTime(SortByTime(SubSeq(s, 1, Len(s) - 1)), s[Len(s)])

\* GasStream(stream_samples, start_time=start_time).  The script hands the samples
\* over in the order of general.json; whether the library keeps that order or
\* orders them by time is not decided by the script: lib_sorts is either.
GasStream(samples, start) ==
    [samples |-> IF lib_sorts THEN SortByTime(samples) ELSE samples,
     start_time |-> start]

\* GasStream.relative_times_as_pint
relative_times_as_pint(stream) ==
    [k \in 1..Len(stream.samples) |-> stream.samples[k].time - stream.start_time]

\* GasStream.get_cumulative_activity(form): the running sum over the stream's samples
get_cumulative_activity(stream, form) ==
    [k \in 1..Len(stream.samples) |->
        SumSeq([j \in 1..k |-> FormActivity(stream.samples[j], form)])]

RECURSIVE InsertInt(_, _)
InsertInt(s, x) ==
    IF s = <<>> THEN <<x>>
    ELSE IF x < s[1] THEN <<x>> \o s
    ELSE <<s[1]>> \o InsertInt(Tail(s), x)

\* the builtin sorted() on a sequence of times
RECURSIVE sorted(_)
sorted(s) ==
    IF s = <<>> THEN <<>>
    ELSE InsertInt(sorted(SubSeq(s, 1, Len(s) - 1)), s[Len(s)])

---------------------------------------------------------------------------
(* The functions of the script.                                            *)

\* substract_scalar_background without the clamp of lines 92-96
substract_scalar_background_noclamp(sample, background_bq) ==
    IF sample.background_substracted
    THEN [raised |-> TRUE, warned |-> FALSE, sample |-> sample]
    ELSE [raised |-> FALSE,
          warned |-> FALSE,
          sample |-> [sample EXCEPT !.activity = sample.activity - background_bq,
                                     !.background_substracted = TRUE]]

\* substract_scalar_background with the test of line 92 turned round
substract_scalar_background_wrongtest(sample, background_bq) ==
    IF sample.background_substracted
    THEN [raised |-> TRUE, warned |-> FALSE, sample |-> sample]
    ELSE LET activity == sample.activity - background_bq IN
         [raised |-> FALSE,
          warned |-> activity > 0,
          sample |-> [sample EXCEPT !.activity = IF activity > 0 THEN 0 ELSE activity,
                                     !.background_substracted = TRUE]]

\* substract_scalar_background without the guard of lines 89-90
substract_scalar_background_noguard(sample, background_bq) ==
    LET activity == sample.activity - background_bq IN
    [raised |-> FALSE,
     warned |-> activity < 0,
     sample |-> [sample EXCEPT !.activity = IF activity < 0 THEN 0 ELSE activity,
                                !.background_substracted = TRUE]]

\* substract_scalar_background(sample, background_bq): what it raises, whether it
\* warns, and the sample it leaves
substract_scalar_background(sample, background_bq) ==
    IF sample.background_substracted
    THEN [raised |-> TRUE, warned |-> FALSE, sample |-> sample]
    ELSE LET activity == sample.activity - background_bq IN
         [raised |-> FALSE,
          warned |-> activity < 0,
          sample |-> [sample EXCEPT !.activity = IF activity < 0 THEN 0 ELSE activity,
                                     !.background_substracted = TRUE]]

\* background_curve is None
NoCurve == [defined |-> FALSE, tSIE_values |-> <<>>, Bq_values |-> <<>>]

\* build_background_curve_from_file(reader, blank_labels): the lists handed to interp1d
build_background_curve_from_file(filename, blank_labels) ==
    [defined |-> TRUE,
     tSIE_values |-> [k \in 1..Len(blank_labels) |->
                        get_row_by_label(filename, blank_labels[k]).tSIE],
     Bq_values |-> [k \in 1..Len(blank_labels) |->
                        LSCSample_from_file(filename, blank_labels[k]).activity]]

\* interp1d(..., bounds_error=False, fill_value="extrapolate") evaluated at x: the line
\* through the two fitted points around x, or through the two nearest an end
EvalCurve(curve, x) ==
    LET n == Len(curve.tSIE_values)
        X == curve.tSIE_values
        Y == curve.Bq_values
        below == {k \in 1..n : X[k] <= x}
        above == {k \in 1..n : X[k] > x}
        maxOf(S) == CHOOSE k \in S : \A j \in S : X[j] <= X[k]
        minOf(S) == CHOOSE k \in S : \A j \in S : X[j] >= X[k]
        a == IF below = {} THEN minOf(above)
             ELSE IF above = {} THEN maxOf(below \ {maxOf(below)})
             ELSE maxOf(below)
        b == IF below = {} THEN minOf(above \ {minOf(above)})
             ELSE IF above = {} THEN maxOf(below)
             ELSE minOf(above)
    IN Y[a] + ((x - X[a]) * (Y[b] - Y[a])) \div (X[b] - X[a])

\* background_labels of line 55
background_labels == <<"1L-BL-1", "1L-BL-2", "1L-BL-3", "1L-BL-4">>

\* the loop of lines 58-63 from candidate i on: the labels looked up, and the first found
RECURSIVE SearchBackground(_, _)
SearchBackground(filename, i) ==
    IF i > Len(background_labels)
    THEN [found |-> FALSE, label |-> "", tried |-> <<>>]
    ELSE IF HasVial(filename, background_labels[i])
    THEN [found |-> TRUE, label |-> background_labels[i], tried |-> <<background_labels[i]>>]
    ELSE LET r == SearchBackground(filename, i + 1) IN
         [r EXCEPT !.tried = <<background_labels[i]>> \o r.tried]

\* the loop of lines 58-63 without the break of line 61: the last label present wins
RECURSIVE SearchBackground_nobreak(_, _)
SearchBackground_nobreak(filename, i) ==
    IF i > Len(background_labels)
    THEN [found |-> FALSE, label |-> "", tried |-> <<>>]
    ELSE LET r == SearchBackground_nobreak(filename, i + 1) IN
         IF r.found
         THEN [r EXCEPT !.tried = <<background_labels[i]>> \o r.tried]
         ELSE [found |-> HasVial(filename, background_labels[i]),
               label |-> IF HasVial(filename, background_labels[i])
                         THEN background_labels[i] ELSE "",
               tried |-> <<background_labels[i]>> \o r.tried]

\* lines 55-66 without the break of line 61
find_background_nobreak(filename) == SearchBackground_nobreak(filename, 1)

\* lines 55-66: the background sample of the file
find_background(filename) == SearchBackground(filename, 1)

\* no sample: what a call that raises leaves its caller
NoSample == [name |-> "", activity |-> 0, background_substracted |-> FALSE]

\* create_sample(label, filename, background_curve): whether it raises, the sample
\* it returns, and the module-level lists and the file accesses it leaves
create_sample(label, filename, curve) ==
    LET found == \E k \in 1..Len(all_file_readers) :
                     all_file_readers[k].filename = filename
        created == IF found THEN n_created ELSE [n_created EXCEPT ![filename] = @ + 1]
        parsed == [n_parsed EXCEPT ![filename] = @ + 1]
        fail(what, tried) ==
            [raised |-> what, sample |-> NoSample, warned |-> FALSE,
             all_file_readers |-> all_file_readers, all_quench |-> all_quench,
             n_created |-> created, n_parsed |-> parsed, lookups |-> tried]
        done(r, tried) ==
            [raised |-> "none", sample |-> r.sample, warned |-> r.warned,
             all_file_readers |-> all_file_readers,
             all_quench |-> Append(all_quench, lsc_files[filename].quench_set),
             n_created |-> created, n_parsed |-> parsed, lookups |-> tried]
    IN IF ~HasVial(filename, label)
       THEN fail("ValueError: vial not found", <<>>)
       ELSE LET sample == LSCSample_from_file(filename, label) IN
            IF curve.defined
            THEN LET tSIE == get_row_by_label(filename, label).tSIE
                     background_bq == EvalCurve(curve, tSIE)
                     r == substract_scalar_background(sample, background_bq)
                 IN IF r.raised
                    THEN fail("ValueError: background already substracted", <<>>)
                    ELSE done(r, <<>>)
            ELSE LET b == find_background(filename) IN
                 IF ~b.found
                 THEN fail("ValueError: background sample not found", b.tried)
                 ELSE LET r == LSCSample_substract_background(
                                   sample, LSCSample_from_file(filename, b.label))
                      IN IF r.raised
                         THEN fail("ValueError: background already substracted", b.tried)
                         ELSE done(r, b.tried)

---------------------------------------------------------------------------
(* The run: the module-level statements of the script, in order.           *)

Abort(e) == pc' = "aborted" /\ error' = e

streams == general_data.tritium_detection
AtStream == cursor.s <= Len(streams)
CurStream == streams[cursor.s]
AtSample == AtStream /\ cursor.i <= Len(CurStream.samples)
CurSample == CurStream.samples[cursor.i]
AtVial == AtSample /\ cursor.v <= Len(CurSample.lsc_vials_filenames)
CurVial == CurSample.lsc_vials_filenames[cursor.v]

\* f"1L-{stream}_{run_nb}-{sample_nb}-{vial_nb}" of line 156
VialLabel(stream, sample_nb, vial_nb) ==
    "1L-" \o stream \o "_" \o ToString(general_data.general_data.run_nb) \o "-" \o sample_nb
          \o "-" \o vial_nb

\* lines 122-133: the background curve of the blank set, when general.json has one
BuildBackgroundCurve ==
    /\ pc = "background"
    /\ LET blank_info == general_data.tritium_blank_set IN
       IF blank_info.present
       THEN /\ n_created' = [n_created EXCEPT ![blank_info.filename] = @ + 1]
            /\ n_parsed' = [n_parsed EXCEPT ![blank_info.filename] = @ + 1]
            /\ IF \A k \in 1..Len(blank_info.blanks) :
                      HasVial(blank_info.filename, blank_info.blanks[k])
               THEN /\ background_curve' = build_background_curve_from_file(
                                               blank_info.filename, blank_info.blanks)
                    /\ pc' = "start_time"
                    /\ error' = error
               ELSE /\ Abort("ValueError: label not found")
                    /\ background_curve' = background_curve
       ELSE /\ background_curve' = NoCurve
            /\ pc' = "start_time"
            /\ UNCHANGED <<error, n_created, n_parsed>>
    /\ UNCHANGED <<inputs, harness, warnings, all_file_readers, all_quench, last_call,
                   start_time, cursor, libra_samples, stream_samples, gas_streams,
                   sampling_times, irradiations, total_irradiation_time, T_produced_IV,
                   processed_data, processed_data_file>>

\* the periods of the enabled generators, in the order of general.json (lines 137-140)
RECURSIVE EnabledPeriods(_)
EnabledPeriods(generators) ==
    IF generators = <<>> THEN <<>>
    ELSE (IF generators[1].enabled THEN generators[1].periods ELSE <<>>)
         \o EnabledPeriods(Tail(generators))

\* the periods of all generators, enabled or not
RECURSIVE AllPeriods(_)
AllPeriods(generators) ==
    IF generators = <<>> THEN <<>>
    ELSE generators[1].periods \o AllPeriods(Tail(generators))

\* lines 135-143: the earliest start of an enabled period
ReadStartTime ==
    /\ pc = "start_time"
    /\ LET periods == EnabledPeriods(general_data.generators)
           all_start_times == [k \in 1..Len(periods) |-> periods[k].start]
       IN IF all_start_times = <<>>
          THEN Abort("ValueError: min() arg is an empty sequence") /\ start_time' = start_time
          ELSE start_time' = MinOf(all_start_times) /\ pc' = "streams" /\ error' = error
    /\ UNCHANGED <<inputs, harness, warnings, all_file_readers, all_quench, n_created,
                   n_parsed, last_call, background_curve, cursor, libra_samples,
                   stream_samples, gas_streams, sampling_times, irradiations,
                   total_irradiation_time, T_produced_IV, processed_data,
                   processed_data_file>>

\* lines 152-153: a sample that has no actual_sample_time is passed over
SkipSample ==
    /\ pc = "streams" /\ AtSample
    /\ CurSample.actual_sample_time = None
    /\ cursor' = [cursor EXCEPT !.i = @ + 1, !.v = 1]
    /\ libra_samples' = <<>>
    /\ UNCHANGED <<inputs, harness, pc, error, warnings, all_file_readers, all_quench,
                   n_created, n_parsed, last_call, background_curve, start_time,
                   stream_samples, gas_streams, sampling_times, irradiations,
                   total_irradiation_time, T_produced_IV, processed_data,
                   processed_data_file>>

\* lines 154-160: one vial of the sample, through create_sample
CreateVial ==
    /\ pc = "streams" /\ AtVial
    /\ CurSample.actual_sample_time # None
    /\ LET label == VialLabel(CurStream.stream, CurSample.sample_nb, CurVial.vial_nb)
           r == create_sample(label, CurVial.filename, background_curve)
       IN /\ all_file_readers' = r.all_file_readers
          /\ all_quench' = r.all_quench
          /\ n_created' = r.n_created
          /\ n_parsed' = r.n_parsed
          /\ warnings' = warnings + (IF r.warned THEN 1 ELSE 0)
          /\ last_call' = [called |-> TRUE, label |-> label, filename |-> CurVial.filename,
                           tried |-> r.lookups, raised |-> r.raised # "none",
                           sample |-> r.sample, n_quench_before |-> Len(all_quench)]
          /\ IF r.raised # "none"
             THEN Abort(r.raised) /\ UNCHANGED <<libra_samples, cursor>>
             ELSE /\ libra_samples' = Append(libra_samples, r.sample)
                  /\ cursor' = [cursor EXCEPT !.v = @ + 1]
                  /\ UNCHANGED <<pc, error>>
    /\ UNCHANGED <<inputs, harness, background_curve, start_time, stream_samples,
                   gas_streams, sampling_times, irradiations, total_irradiation_time,
                   T_produced_IV, processed_data, processed_data_file>>

\* lines 162-165: the vials of the sample make one LIBRASample
AppendLIBRASample ==
    /\ pc = "streams" /\ AtSample /\ ~AtVial
    /\ CurSample.actual_sample_time # None
    /\ stream_samples' = Append(stream_samples,
                                LIBRASample(libra_samples, CurSample.actual_sample_time))
    /\ libra_samples' = <<>>
    /\ cursor' = [cursor EXCEPT !.i = @ + 1, !.v = 1]
    /\ UNCHANGED <<inputs, harness, pc, error, warnings, all_file_readers, all_quench,
                   n_created, n_parsed, last_call, background_curve, start_time,
                   gas_streams, sampling_times, irradiations, total_irradiation_time,
                   T_produced_IV, processed_data, processed_data_file>>

\* line 166: the samples of the stream make one GasStream
BuildGasStream ==
    /\ pc = "streams" /\ AtStream /\ ~AtSample
    /\ gas_streams' = [name \in DOMAIN gas_streams \cup {CurStream.stream} |->
                          IF name = CurStream.stream
                          THEN GasStream(stream_samples, start_time)
                          ELSE gas_streams[name]]
    /\ stream_samples' = <<>>
    /\ cursor' = [s |-> cursor.s + 1, i |-> 1, v |-> 1]
    /\ UNCHANGED <<inputs, harness, pc, error, warnings, all_file_readers, all_quench,
                   n_created, n_parsed, last_call, background_curve, start_time,
                   libra_samples, sampling_times, irradiations, total_irradiation_time,
                   T_produced_IV, processed_data, processed_data_file>>

\* lines 170-173: the run, and the assertion that one quench set is used
CheckQuenchSets ==
    /\ pc = "streams" /\ ~AtStream
    /\ IF Cardinality(Range(all_quench)) = 1
       THEN pc' = "check_background" /\ error' = error
       ELSE Abort("AssertionError: quench sets")
    /\ UNCHANGED <<inputs, harness, warnings, all_file_readers, all_quench, n_created,
                   n_parsed, last_call, background_curve, start_time, cursor,
                   libra_samples, stream_samples, gas_streams, sampling_times,
                   irradiations, total_irradiation_time, T_produced_IV, processed_data,
                   processed_data_file>>

\* every vial of every sample of every stream of the run
AllVials ==
    UNION {UNION {Range(gas_streams[name].samples[k].samples) :
                      k \in 1..Len(gas_streams[name].samples)} :
               name \in DOMAIN gas_streams}

\* lines 175-181: the assertion that every vial had its background substracted
CheckBackgroundSubstracted ==
    /\ pc = "check_background"
    /\ IF \A lsc_vial \in AllVials : lsc_vial.background_substracted
       THEN pc' = "sampling_times" /\ error' = error
       ELSE Abort("AssertionError: background not substracted")
    /\ UNCHANGED <<inputs, harness, warnings, all_file_readers, all_quench, n_created,
                   n_parsed, last_call, background_curve, start_time, cursor,
                   libra_samples, stream_samples, gas_streams, sampling_times,
                   irradiations, total_irradiation_time, T_produced_IV, processed_data,
                   processed_data_file>>

\* lines 183-192: the sorted sampling times of the IV and OV streams
SamplingTimes ==
    /\ pc = "sampling_times"
    /\ IF {"IV", "OV"} \subseteq DOMAIN gas_streams
       THEN /\ sampling_times' =
                   [name \in {"IV", "OV"} |->
                       sorted(relative_times_as_pint(gas_streams[name]))]
            /\ pc' = "irradiations" /\ error' = error
       ELSE Abort("KeyError") /\ sampling_times' = sampling_times
    /\ UNCHANGED <<inputs, harness, warnings, all_file_readers, all_quench, n_created,
                   n_parsed, last_call, background_curve, start_time, cursor,
                   libra_samples, stream_samples, gas_streams, irradiations,
                   total_irradiation_time, T_produced_IV, processed_data,
                   processed_data_file>>

\* lines 211-227: the periods of the enabled generators as offsets from start_time
ReadIrradiations ==
    /\ pc = "irradiations"
    /\ LET periods == EnabledPeriods(general_data.generators) IN
       irradiations' = [k \in 1..Len(periods) |->
                           <<periods[k].start - start_time, periods[k].end - start_time>>]
    /\ pc' = "statepoint"
    /\ UNCHANGED <<inputs, harness, error, warnings, all_file_readers, all_quench,
                   n_created, n_parsed, last_call, background_curve, start_time, cursor,
                   libra_samples, stream_samples, gas_streams, sampling_times,
                   total_irradiation_time, T_produced_IV, processed_data,
                   processed_data_file>>

\* the test of line 245 dropped: the run goes on without the statepoint
StatepointFound_unchecked == TRUE

\* line 245: filename.exists()
StatepointFound == statepoint_exists

\* lines 242-255: the OpenMC statepoint must exist
CheckStatepoint ==
    /\ pc = "statepoint"
    /\ IF StatepointFound
       THEN pc' = "measured_TBR" /\ error' = error
       ELSE Abort("FileNotFoundError: run OpenMC first")
    /\ UNCHANGED <<inputs, harness, warnings, all_file_readers, all_quench, n_created,
                   n_parsed, last_call, background_curve, start_time, cursor,
                   libra_samples, stream_samples, gas_streams, sampling_times,
                   irradiations, total_irradiation_time, T_produced_IV, processed_data,
                   processed_data_file>>

\* sum(stop - start) over every period of general.json, the disabled generators' too
SumIrradiations_all(irrs) ==
    LET periods == AllPeriods(general_data.generators) IN
    SumSeq([k \in 1..Len(periods) |-> periods[k].end - periods[k].start])

\* line 259: sum([irr[1] - irr[0] for irr in irradiations])
SumIrradiations(irrs) == SumSeq([k \in 1..Len(irrs) |-> irrs[k][2] - irrs[k][1]])

\* lines 257-270: the irradiation time and the tritium the IV stream produced
MeasuredTBR ==
    /\ pc = "measured_TBR"
    /\ total_irradiation_time' = SumIrradiations(irradiations)
    /\ LET IV_stream == gas_streams["IV"]
           nb_samples_included_iv == Len(IV_stream.samples)
       IN IF nb_samples_included_iv = 0
          THEN Abort("IndexError") /\ T_produced_IV' = T_produced_IV
          ELSE /\ T_produced_IV' =
                     get_cumulative_activity(IV_stream, "total")[nb_samples_included_iv]
               /\ pc' = "store" /\ error' = error
    /\ UNCHANGED <<inputs, harness, warnings, all_file_readers, all_quench, n_created,
                   n_parsed, last_call, background_curve, start_time, cursor,
                   libra_samples, stream_samples, gas_streams, sampling_times,
                   irradiations, processed_data, processed_data_file>>

\* lines 289-349: the dictionary of results
ProcessedData ==
    [irradiations |-> irradiations,
     measured_TBR |-> [T_produced_IV |-> T_produced_IV,
                       total_irradiation_time |-> total_irradiation_time],
     cumulative_tritium_release |->
        [name \in DOMAIN gas_streams |->
            [total |-> get_cumulative_activity(gas_streams[name], "total"),
             soluble |-> get_cumulative_activity(gas_streams[name], "soluble"),
             insoluble |-> get_cumulative_activity(gas_streams[name], "insoluble"),
             sampling_times |-> relative_times_as_pint(gas_streams[name])]]]

\* lines 288-367: the results are merged into processed_data.json, key over key
StoreProcessedData ==
    /\ pc = "store"
    /\ processed_data' = ProcessedData
    /\ processed_data_file' =
          [exists |-> TRUE,
           other_keys |-> IF processed_data_file.exists
                          THEN processed_data_file.other_keys ELSE {},
           data |-> ProcessedData]
    /\ pc' = "done"
    /\ UNCHANGED <<inputs, harness, error, warnings, all_file_readers, all_quench,
                   n_created, n_parsed, last_call, background_curve, start_time, cursor,
                   libra_samples, stream_samples, gas_streams, sampling_times,
                   irradiations, total_irradiation_time, T_produced_IV>>

Next ==
    \/ BuildBackgroundCurve
    \/ ReadStartTime
    \/ SkipSample
    \/ CreateVial
    \/ AppendLIBRASample
    \/ BuildGasStream
    \/ CheckQuenchSets
    \/ CheckBackgroundSubstracted
    \/ SamplingTimes
    \/ ReadIrradiations
    \/ CheckStatepoint
    \/ MeasuredTBR
    \/ StoreProcessedData

---------------------------------------------------------------------------
(* Repeated subtraction on one sample: substract_scalar_background and the *)
(* library's substract_background called on a sample in any state.         *)

\* substract_scalar_background(t_sample, background_bq), the ValueError caught
TestSubtractScalar ==
    /\ pc = "test" /\ t_last.n < MaxAttempts
    /\ \E background_bq \in -MaxBg..MaxBg :
          LET r == substract_scalar_background(t_sample, background_bq) IN
          /\ t_sample' = r.sample
          /\ t_last' = [n |-> t_last.n + 1, by |-> "scalar", before |-> t_sample,
                        background |-> background_bq, raised |-> r.raised,
                        warned |-> r.warned]
          /\ t_applied' = t_applied + (IF r.raised THEN 0 ELSE 1)
    /\ UNCHANGED <<inputs, pc, error, warnings, all_file_readers, all_quench, n_created,
                   n_parsed, last_call, background_curve, start_time, cursor,
                   libra_samples, stream_samples, gas_streams, sampling_times,
                   irradiations, total_irradiation_time, T_produced_IV, processed_data,
                   processed_data_file>>

\* t_sample.substract_background(background_sample), the ValueError caught
TestSubtractSample ==
    /\ pc = "test" /\ t_last.n < MaxAttempts
    /\ \E bq \in 0..MaxBg :
          LET background_sample == [name |-> "1L-BL-1", activity |-> bq,
                                    background_substracted |-> FALSE]
              r == LSCSample_substract_background(t_sample, background_sample)
          IN /\ t_sample' = r.sample
             /\ t_last' = [n |-> t_last.n + 1, by |-> "sample", before |-> t_sample,
                           background |-> bq, raised |-> r.raised, warned |-> r.warned]
             /\ t_applied' = t_applied + (IF r.raised THEN 0 ELSE 1)
    /\ UNCHANGED <<inputs, pc, error, warnings, all_file_readers, all_quench, n_created,
                   n_parsed, last_call, background_curve, start_time, cursor,
                   libra_samples, stream_samples, gas_streams, sampling_times,
                   irradiations, total_irradiation_time, T_produced_IV, processed_data,
                   processed_data_file>>

NextSubtract == TestSubtractScalar \/ TestSubtractSample

---------------------------------------------------------------------------
(* The inputs of a run.                                                    *)

Files == {"f1.csv", "f2.csv", "blank.csv"}
SampleFiles == {"f1.csv", "f2.csv"}
QuenchSets == {"QA", "QB"}
BlankLabels == <<"blank-1", "blank-2">>
Day == 24 * 3600

\* general.json: the IV stream has three samples (of three vials, one vial and one
\* vial) and the OV stream one sample of one vial.  files gives the LSC files of vials
\* IV-1-1, IV-1-2, IV-2-1 and OV-1-1 (IV-1-3 is counted with IV-1-2, IV-3-1 with
\* IV-2-1), times the time of each IV sample
GeneralData(curved, generators, times, files) ==
    [general_data |-> [run_nb |-> 8],
     tritium_blank_set |-> [present |-> curved, filename |-> "blank.csv",
                            blanks |-> BlankLabels],
     generators |-> generators,
     tritium_detection |->
        <<[stream |-> "IV",
           samples |->
             <<[sample_nb |-> "1", actual_sample_time |-> times[1],
                lsc_vials_filenames |-> <<[vial_nb |-> "1", filename |-> files[1]],
                                          [vial_nb |-> "2", filename |-> files[2]],
                                          [vial_nb |-> "3", filename |-> files[2]]>>],
               [sample_nb |-> "2", actual_sample_time |-> times[2],
                lsc_vials_filenames |-> <<[vial_nb |-> "1", filename |-> files[3]]>>],
               [sample_nb |-> "3", actual_sample_time |-> times[3],
                lsc_vials_filenames |-> <<[vial_nb |-> "1", filename |-> files[3]]>>]>>],
          [stream |-> "OV",
           samples |->
             <<[sample_nb |-> "1", actual_sample_time |-> times[1],
                lsc_vials_filenames |-> <<[vial_nb |-> "1", filename |-> files[4]]>>]>>]>>]

\* the labels of the six vials, in the order the script reads them
VialLabels == <<"1L-IV_8-1-1", "1L-IV_8-1-2", "1L-IV_8-1-3", "1L-IV_8-2-1",
                "1L-IV_8-3-1", "1L-OV_8-1-1">>

\* one generator in use from 0 s to 3600 s, and one switched off
OneGenerator ==
    <<[enabled |-> TRUE, periods |-> <<[start |-> 0, end |-> 3600]>>],
      [enabled |-> FALSE, periods |-> <<[start |-> 0, end |-> 7200]>>]>>

\* an LSC file: its quench set and, for each label it holds, the row of the label
LSCFile(quench, labels, bq1, tSIE) ==
    [quench_set |-> quench,
     rows |-> [l \in labels |-> [bq1 |-> bq1[l], tSIE |-> tSIE[l]]]]

\* the blank file: two blanks, measured at tSIE 1 and 2
BlankFile(quench, b1, b2) ==
    LSCFile(quench, Range(BlankLabels),
            [l \in Range(BlankLabels) |-> IF l = BlankLabels[1] THEN b1 ELSE b2],
            [l \in Range(BlankLabels) |-> IF l = BlankLabels[1] THEN 1 ELSE 2])

\* processed_data.json before the run: absent, or the results of an earlier analysis
NoData == [irradiations |-> <<>>,
           measured_TBR |-> [T_produced_IV |-> 0, total_irradiation_time |-> 0],
           cumulative_tritium_release |-> <<>>]
NoFile == [exists |-> FALSE, other_keys |-> {}, data |-> NoData]
OldFile == [exists |-> TRUE, other_keys |-> {"modelled_TBR"}, data |-> NoData]

\* the state of the script before its first statement
Start(first) ==
    /\ pc = first
    /\ error = "none"
    /\ warnings = 0
    /\ all_file_readers = <<>>
    /\ all_quench = <<>>
    /\ n_created = [f \in Files |-> 0]
    /\ n_parsed = [f \in Files |-> 0]
    /\ last_call = [called |-> FALSE, label |-> "", filename |-> "", tried |-> <<>>,
                    raised |-> FALSE, sample |-> NoSample, n_quench_before |-> 0]
    /\ background_curve = NoCurve
    /\ start_time = 0
    /\ cursor = [s |-> 1, i |-> 1, v |-> 1]
    /\ libra_samples = <<>>
    /\ stream_samples = <<>>
    /\ gas_streams = <<>>
    /\ sampling_times = <<>>
    /\ irradiations = <<>>
    /\ total_irradiation_time = 0
    /\ T_produced_IV = 0
    /\ processed_data = NoData
    /\ processed_data_file = existing_file
    /\ t_last = [n |-> 0, by |-> "", before |-> NoSample, background |-> 0,
                 raised |-> FALSE, warned |-> FALSE]
    /\ t_applied = 0

\* the rows of a sample file: the vials but those of `missing`, and the background
\* vials of `present`; a vial counts raw Bq, background vial k counts bg[k] Bq
SampleFile(quench, missing, present, raw, bg, tSIE) ==
    LET vials == Range(VialLabels) \ missing
        labels == vials \cup present
        k(l) == CHOOSE j \in 1..Len(background_labels) : background_labels[j] = l
        v(l) == CHOOSE j \in 1..Len(VialLabels) : VialLabels[j] = l
    IN LSCFile(quench, labels,
               [l \in labels |-> IF l \in vials THEN raw[v(l)] ELSE bg[k(l)]],
               [l \in labels |-> IF l \in vials THEN tSIE[v(l)] ELSE 0])

\* Runs that differ in the LSC file of each vial, the quench set of each file, the
\* background strategy, the vials the files hold, the statepoint and the old results.
Init ==
    /\ \E files \in [1..4 -> SampleFiles], curved \in BOOLEAN :
          /\ files[1] = "f1.csv"
          /\ general_data = GeneralData(curved, OneGenerator, <<Day, 2 * Day, None>>, files)
    /\ \E q \in [Files -> QuenchSets], lost \in BOOLEAN,
          present \in {{}, Range(background_labels)} :
          LET missing == IF lost THEN {VialLabels[4]} ELSE {}
              file(f) == SampleFile(q[f], missing, present, <<3, 3, 3, 3, 3, 3>>,
                                    <<1, 1, 1, 1>>, <<1, 1, 1, 1, 1, 1>>)
          IN lsc_files = [f \in Files |-> IF f = "blank.csv" THEN BlankFile(q[f], 1, 1)
                                          ELSE file(f)]
    /\ statepoint_exists \in BOOLEAN
    /\ existing_file \in {NoFile, OldFile}
    /\ lib_sorts = FALSE
    /\ t_sample = NoSample
    /\ Start("background")

Spec == Init /\ [][Next]_vars

\* Runs under the scalar strategy that differ in the background vials each sample
\* file holds: background vial k counts k Bq in f1.csv and k + 4 Bq in f2.csv.
InitBackground ==
    /\ \E files \in [1..4 -> SampleFiles], curved \in BOOLEAN :
          /\ files[1] = "f1.csv" /\ files[4] = "f2.csv"
          /\ general_data = GeneralData(curved, OneGenerator, <<Day, 2 * Day, None>>, files)
    /\ \E present \in [SampleFiles -> SUBSET Range(background_labels)] :
          lsc_files = [f \in Files |->
                          IF f = "blank.csv" THEN BlankFile("QA", 1, 1)
                          ELSE SampleFile("QA", {}, present[f], <<9, 9, 9, 9, 9, 9>>,
                                          IF f = "f1.csv" THEN <<1, 2, 3, 4>>
                                          ELSE <<5, 6, 7, 8>>,
                                          <<1, 1, 1, 1, 1, 1>>)]
    /\ statepoint_exists = TRUE
    /\ existing_file = NoFile
    /\ lib_sorts = FALSE
    /\ t_sample = NoSample
    /\ Start("background")

SpecBackground == InitBackground /\ [][Next]_vars

\* Runs that differ in the counts of three vials, the background (the count of the
\* background vials, or the two blanks of the curve), the order of the IV samples in
\* general.json, whether the third is taken, and the order the library keeps.
InitStreams ==
    /\ \E curved \in BOOLEAN, swapped \in BOOLEAN, third \in {None, 3 * Day} :
          general_data = GeneralData(curved, OneGenerator,
                                     IF swapped THEN <<2 * Day, Day, third>>
                                     ELSE <<Day, 2 * Day, third>>,
                                     [k \in 1..4 |-> "f1.csv"])
    /\ \E a \in 0..MaxAct, b \in 0..MaxAct, c \in 0..MaxAct,
          b1 \in 0..MaxBg, b2 \in 0..MaxBg :
          /\ general_data.tritium_blank_set.present \/ b1 = b2
          /\ lsc_files = [f \in Files |->
                             IF f = "blank.csv" THEN BlankFile("QA", b1, b2)
                             ELSE SampleFile("QA", {}, Range(background_labels),
                                             <<a, 1, b, c, 1, 1>>, <<b1, b1, b1, b1>>,
                                             <<0, 1, 2, 3, 1, 1>>)]
    /\ statepoint_exists = TRUE
    /\ existing_file = NoFile
    /\ lib_sorts \in BOOLEAN
    /\ t_sample = NoSample
    /\ Start("background")

SpecStreams == InitStreams /\ [][Next]_vars

\* the times a period of a generator starts and ends at
TimeGrid == {3600, 7200, 10800, 12600}
Periods == {p \in [start : TimeGrid, end : TimeGrid] : p.start <= p.end}
PeriodLists == UNION {[1..n -> Periods] : n \in 0..MaxPeriods}

\* Runs that differ in the periods of two generators and in which are enabled.
InitIrradiation ==
    /\ \E generators \in [1..2 -> [enabled : BOOLEAN, periods : PeriodLists]] :
          general_data = GeneralData(FALSE, generators, <<Day, 2 * Day, None>>,
                                     [k \in 1..4 |-> "f1.csv"])
    /\ lsc_files = [f \in Files |->
                       IF f = "blank.csv" THEN BlankFile("QA", 1, 1)
                       ELSE SampleFile("QA", {}, Range(background_labels),
                                       <<3, 3, 3, 3, 3, 3>>, <<1, 1, 1, 1>>,
                                       <<1, 1, 1, 1, 1, 1>>)]
    /\ statepoint_exists = TRUE
    /\ existing_file = NoFile
    /\ lib_sorts = FALSE
    /\ t_sample = NoSample
    /\ Start("background")

SpecIrradiation == InitIrradiation /\ [][Next]_vars

\* One sample as LSCSample.from_file returns it, with any count.
InitSubtract ==
    /\ general_data = GeneralData(FALSE, OneGenerator, <<Day, 2 * Day, None>>,
                                  [k \in 1..4 |-> "f1.csv"])
    /\ lsc_files = [f \in Files |->
                       IF f = "blank.csv" THEN BlankFile("QA", 1, 1)
                       ELSE SampleFile("QA", {}, Range(background_labels),
                                       <<3, 3, 3, 3, 3, 3>>, <<1, 1, 1, 1>>,
                                       <<1, 1, 1, 1, 1, 1>>)]
    /\ statepoint_exists = TRUE
    /\ existing_file = NoFile
    /\ lib_sorts = FALSE
    /\ \E a \in 0..MaxAct :
          t_sample = [name |-> VialLabels[1], activity |-> a,
                      background_substracted |-> FALSE]
    /\ Start("test")

SpecSubtract == InitSubtract /\ [][NextSubtract]_vars

---------------------------------------------------------------------------
(* The claims.                                                             *)

\* the files the run has read so far
UsedFiles == {f \in Files : n_parsed[f] > 0}

\* the run is past the assertions of lines 173-181
Validated == pc \in {"sampling_times", "irradiations", "statepoint", "measured_TBR",
                     "store", "done"}

\* the vials of the samples of general.json that have a time, with their files
ConfiguredVials ==
    {<<VialLabel(streams[s].stream, streams[s].samples[i].sample_nb,
                 streams[s].samples[i].lsc_vials_filenames[v].vial_nb),
       streams[s].samples[i].lsc_vials_filenames[v].filename>> :
        <<s, i, v>> \in
            {x \in (1..Len(streams)) \X (1..3) \X (1..3) :
                /\ x[2] <= Len(streams[x[1]].samples)
                /\ x[3] <= Len(streams[x[1]].samples[x[2]].lsc_vials_filenames)
                /\ streams[x[1]].samples[x[2]].actual_sample_time # None}}

NonDecreasing(seq) == \A k \in 1..Len(seq) - 1 : seq[k] <= seq[k + 1]
Forms == {"total", "soluble", "insoluble"}

\* C1: the counting table of a file is loaded at most once in a run: one reader is
\* made for a path and one read_file() parses it, however many samples come from it.
C1_TableLoadedOnce == \A f \in Files : n_created[f] <= 1 /\ n_parsed[f] <= 1

\* C2: once the quench-set assertion has passed, every counting table the run used,
\* the blank file of the background curve included, reports the same quench set.
C2_OneQuenchSetUsed ==
    pc = "check_background" \/ Validated =>
        Cardinality({lsc_files[f].quench_set : f \in UsedFiles}) = 1

\* C3: a subtraction that completes leaves the activity at raw minus background, or at
\* exactly zero with a warning when that is negative, never below zero, and the sample
\* marked background_substracted.
C3_ActivityClamped ==
    t_last.n > 0 /\ ~t_last.raised =>
        LET corrected == t_last.before.activity - t_last.background IN
        /\ t_sample.activity >= 0
        /\ corrected < 0 => t_sample.activity = 0 /\ t_last.warned
        /\ corrected >= 0 => t_sample.activity = corrected /\ ~t_last.warned
        /\ t_sample.background_substracted

C3_Clamped ==
    /\ t_last.n > 0 /\ ~t_last.raised /\ t_last.by = "scalar"
    /\ t_last.before.activity - t_last.background < 0
    /\ t_sample.activity = 0

\* C4: a subtraction on a sample not yet corrected succeeds and marks it; every later
\* attempt raises and leaves the sample as it was: the background is applied once.
C4_SubtractedOnce ==
    t_last.n > 0 =>
        /\ ~t_last.before.background_substracted =>
               ~t_last.raised /\ t_sample.background_substracted
        /\ t_last.before.background_substracted =>
               t_last.raised /\ t_sample = t_last.before
        /\ t_applied = 1

C4_SecondAttemptRaised ==
    /\ t_last.n = 2 /\ t_last.by = "scalar" /\ t_last.raised
    /\ t_last.background # 0
    /\ t_sample = t_last.before

\* C5: without a background curve create_sample looks the labels 1L-BL-1 .. 1L-BL-4 up
\* in the sample's own file in that order, stops at the first one present and
\* subtracts its count; when none is present it raises, returns no sample and records
\* no quench set.
C5_FirstBackgroundUsed ==
    /\ last_call.called
    /\ ~background_curve.defined
    /\ HasVial(last_call.filename, last_call.label)
    =>
    LET f == last_call.filename
        present == {k \in 1..Len(background_labels) : HasVial(f, background_labels[k])}
        raw == lsc_files[f].rows[last_call.label].bq1
    IN IF present = {}
       THEN /\ last_call.raised /\ pc = "aborted"
            /\ last_call.tried = background_labels
            /\ last_call.sample = NoSample
            /\ Len(all_quench) = last_call.n_quench_before
       ELSE LET first == CHOOSE k \in present : \A j \in present : k <= j IN
            /\ ~last_call.raised
            /\ last_call.tried = SubSeq(background_labels, 1, first)
            /\ last_call.sample.activity =
                   Max(raw - lsc_files[f].rows[background_labels[first]].bq1, 0)
            /\ Len(all_quench) = last_call.n_quench_before + 1

C5_ThirdLabelUsed ==
    /\ last_call.called /\ ~background_curve.defined /\ ~last_call.raised
    /\ last_call.filename = "f2.csv"
    /\ last_call.tried = SubSeq(background_labels, 1, 3)
    /\ HasVial("f2.csv", background_labels[4])
    /\ HasVial("f1.csv", background_labels[1])

\* C6: for every stream and form the cumulative activity is accumulated in ascending
\* time order, whatever the order of the samples in general.json, and is aligned with
\* the relative times reported with it: equal lengths, ascending times, entry i the
\* running sum up to the sample of relative time i.
C6_CumulativeInTimeOrder ==
    pc = "done" =>
        \A name \in DOMAIN gas_streams :
            LET out == processed_data_file.data.cumulative_tritium_release[name]
                ordered == SortByTime(gas_streams[name].samples)
            IN /\ NonDecreasing(out.sampling_times)
               /\ \A form \in Forms :
                     /\ Len(out[form]) = Len(out.sampling_times)
                     /\ \A i \in 1..Len(out[form]) :
                           /\ out.sampling_times[i] = ordered[i].time - start_time
                           /\ out[form][i] =
                                 SumSeq([j \in 1..i |-> FormActivity(ordered[j], form)])

\* C7: the measured TBR takes the IV stream's cumulative total activity at the index
\* of the configured cutoff, so the samples after the cutoff do not contribute: for
\* whichever count of samples is to be included, that entry is the tritium produced.
C7_TrailingSamplesExcluded ==
    pc \in {"store", "done"} =>
        \A included_count \in 1..Len(gas_streams["IV"].samples) :
            T_produced_IV =
                get_cumulative_activity(gas_streams["IV"], "total")[included_count]

\* C8: processed_data.json is written only by a run whose fatal checks all passed:
\* every vial and its background found, one distinct quench set recorded, every vial
\* background-substracted, the statepoint present.  A run that aborts leaves the
\* file as it found it.
C8_OutputOnlyAfterChecks ==
    /\ processed_data_file # existing_file =>
          /\ pc = "done"
          /\ \A x \in ConfiguredVials :
                /\ HasVial(x[2], x[1])
                /\ general_data.tritium_blank_set.present
                   \/ \E k \in 1..Len(background_labels) : HasVial(x[2], background_labels[k])
          /\ Cardinality(Range(all_quench)) = 1
          /\ \A lsc_vial \in AllVials : lsc_vial.background_substracted
          /\ statepoint_exists
    /\ pc = "aborted" => processed_data_file = existing_file

C8_AbortedAfterValidation ==
    /\ pc = "aborted" /\ error = "FileNotFoundError: run OpenMC first"
    /\ existing_file.exists
    /\ processed_data_file = existing_file

\* C9: the total irradiation time is the sum of stop - start over the periods of the
\* enabled generators and of no others, as offsets from the earliest start of an
\* enabled period; no offset of a start is negative; periods [0 s, 3600 s] and
\* [7200 s, 9000 s] give 5400 s.
C9_TotalIrradiationTime ==
    pc \in {"store", "done"} =>
        LET gens == general_data.generators
            on == {x \in (1..Len(gens)) \X (1..MaxPeriods + 1) :
                      gens[x[1]].enabled /\ x[2] <= Len(gens[x[1]].periods)}
            starts == {gens[x[1]].periods[x[2]].start : x \in on}
            length(x) == gens[x[1]].periods[x[2]].end - gens[x[1]].periods[x[2]].start
            total[S \in SUBSET on] ==
                IF S = {} THEN 0
                ELSE LET x == CHOOSE y \in S : TRUE IN length(x) + total[S \ {x}]
        IN /\ total_irradiation_time = total[on]
           /\ start_time \in starts /\ \A t \in starts : start_time <= t
           /\ Len(irradiations) = Cardinality(on)
           /\ \A k \in 1..Len(irradiations) : irradiations[k][1] >= 0
           /\ Range(irradiations) =
                  {<<gens[x[1]].periods[x[2]].start - start_time,
                     gens[x[1]].periods[x[2]].end - start_time>> : x \in on}
           /\ irradiations = <<<<0, 3600>>, <<7200, 9000>>>> =>
                  total_irradiation_time = 5400

C9_TwoPeriods ==
    /\ pc = "done"
    /\ irradiations = <<<<0, 3600>>, <<7200, 9000>>>>
    /\ total_irradiation_time = 5400

\* C10: in a validated run the cumulative activity of every stream and form never
\* decreases from one entry to the next, under the scalar and the curve background.
C10_CumulativeNonDecreasing ==
    Validated =>
        \A name \in DOMAIN gas_streams : \A form \in Forms :
            NonDecreasing(get_cumulative_activity(gas_streams[name], form))

C10_ClampedUnderCurve ==
    /\ pc = "done" /\ background_curve.defined /\ warnings > 0
    /\ Len(gas_streams["IV"].samples) = 3
    /\ \E k \in 1..2 : get_cumulative_activity(gas_streams["IV"], "total")[k]
                        < get_cumulative_activity(gas_streams["IV"], "total")[k + 1]

====
